---- MODULE Spec2Model ----
(***************************************************************************)
(* Map-to-tensor conversion of lanelet_converter.py.                       *)
(*                                                                         *)
(* Reals are modelled exactly on a fixed-point grid.  Raw map coordinates  *)
(* are integer metres; _interpolate_lane resamples at 0.5 m, so its output *)
(* is held in half metres (InvSpacing per metre); _interpolate_points      *)
(* samples at j*L/(num_point-1), so its output is held in units of         *)
(* 1/(num_point-1) of its input unit.  A Map polyline is therefore held in *)
(* 1/Unit metres, Unit = InvSpacing*(NumPoint-1).  Polylines are made of   *)
(* axis-parallel pieces, so every length and every interpolated coordinate *)
(* is exact on the grid.                                                   *)
(***************************************************************************)
EXTENDS Integers, Sequences, FiniteSets, TLC

\* ------------------------------------------------------------ bounds
MaxLanelets == 3    \* lanelets in the lanelet layer of a map
MaxN == 2           \* largest num_segments a caller asks for
MaxK == 4           \* largest num_point given to _interpolate_points alone
MaxSteps == 2       \* pieces of a polyline given to _interpolate_points alone

\* ------------------------------------------------------------ program constants
NumPoint == 20          \* _fix_point_num: "Fix the number of points to 20"
InvSpacing == 2         \* _interpolate_lane: spacing 0.5 = 1/InvSpacing
MarginNum == 11         \* process_segment: mask_range * 1.1 = MarginNum/MarginDen
MarginDen == 10
NumChannels == 12       \* create_lane_tensor: (1, num_segments, 20, 12)
RED == 1
AMBER == 2
GREEN == 3
WHITE == 4
Kph2MphMicro == 621371  \* _get_speed_limit_mph: kph2mph = 0.621371, in millionths
Mph2MpsE5 == 44704      \* process_segment: speed_limit_mph * 0.44704, in 1/100000

Unit == InvSpacing * (NumPoint - 1)

\* Python None, and an optional value v, as sequences of length 0 and 1.
None == <<>>
Some(v) == <<v>>

\* ------------------------------------------------------------ arrays
\* An ndarray of rows: the sequence with every row computed, once.
Array(rows) == SubSeq(rows, 1, Len(rows))

\* ------------------------------------------------------------ arithmetic
Abs(a) == IF a < 0 THEN -a ELSE a

SetMin(S) == CHOOSE m \in S : \A n \in S : m <= n

\* Integer square root of a perfect square.
ISqrt(n) == CHOOSE r \in 0..n : r * r = n

\* np.linalg.norm of a difference, first `dims` coordinates.  The pieces of
\* the modelled polylines are axis-parallel or have an integer length.
Norm(p, q, dims) ==
    LET nz == {c \in 1..dims : p[c] # q[c]}
    IN  IF nz = {} THEN 0
        ELSE IF Cardinality(nz) = 1
             THEN LET c == CHOOSE c \in nz : TRUE IN Abs(q[c] - p[c])
             ELSE LET sq == [c \in 1..dims |-> (q[c] - p[c]) * (q[c] - p[c])]
                  IN  ISqrt(IF dims = 2 THEN sq[1] + sq[2] ELSE sq[1] + sq[2] + sq[3])

\* Cumulative length of `line` up to vertex i, measured in the first `dims`
\* coordinates.
RECURSIVE Cum(_, _, _)
Cum(line, i, dims) ==
    IF i <= 1 THEN 0 ELSE Cum(line, i - 1, dims) + Norm(line[i - 1], line[i], dims)

\* ------------------------------------------------------------ _interpolate_points
\* Planar cumulative lengths of the vertices of `line`.  shapely's
\* geometric analysis is planar: LineString.length and interpolate ignore z.
PlanarCum(line) == Array([i \in 1..Len(line) |-> Cum(line, i, 2)])

\* LineString.length.
LineLength(line) == PlanarCum(line)[Len(line)]

\* shapely LineString.interpolate(num/den), cum = PlanarCum(line): the point
\* at planar distance num/den from the start, z interpolated along the
\* piece.  The result is returned multiplied by den.  A distance <= 0 gives
\* the first vertex, a distance not below the length gives the last vertex,
\* otherwise the first piece whose end lies beyond the distance is used.
LineInterpolate(line, cum, num, den) ==
    IF num <= 0 THEN Array([c \in 1..3 |-> den * line[1][c]])
    ELSE LET hits == {i \in 1..(Len(line) - 1) : den * cum[i + 1] > num}
         IN  IF hits = {} THEN Array([c \in 1..3 |-> den * line[Len(line)][c]])
             ELSE LET i == SetMin(hits)
                      segLen == cum[i + 1] - cum[i]
                      off == num - den * cum[i]
                  IN  Array([c \in 1..3 |->
                          den * line[i][c] + (off * (line[i + 1][c] - line[i][c])) \div segLen])

\* Denominator of np.linspace(0, length, num_point): the step is
\* length/(num_point-1).
LinspaceDen(num_point) == IF num_point > 1 THEN num_point - 1 ELSE 1

\* shapely LineString(line): GEOS refuses a point array of exactly one
\* element ("point array must contain 0 or >1 elements").
LineString(line) == [raised |-> Len(line) = 1, coords |-> line]

\* _interpolate_points(line, num_point): num_point points at the distances
\* np.linspace(0, line.length, num_point), or the exception of LineString.
\* Coordinates of new_line are in 1/LinspaceDen(num_point) of the unit of
\* `line`.
_interpolate_points(line, num_point) ==
    IF LineString(line).raised THEN [raised |-> TRUE, new_line |-> <<>>]
    ELSE LET den == LinspaceDen(num_point)
             cum == PlanarCum(line)
             length == cum[Len(line)]
         IN  [raised |-> FALSE,
              new_line |-> Array([j \in 1..num_point |->
                              LineInterpolate(line, cum, (j - 1) * length, den)])]

\* ------------------------------------------------------------ _interpolate_lane
\* scipy interp1d(kind="linear") of the column c of `waypoints` over the
\* knots `distances`, evaluated at t/InvSpacing; the result is multiplied by
\* InvSpacing.  With float64 knots, a 1-D float64 column and no
\* extrapolation, interp1d delegates to np.interp: j is the last knot not
\* above the abscissa; the last knot, or a knot equal to the abscissa, gives
\* its own value, so that repeated knots never divide by zero; otherwise the
\* value is y[j] + slope * (x_new - x[j]).
Interp1d(distances, waypoints, c, t) ==
    LET n == Len(distances)
        j == Cardinality({k \in 1..n : InvSpacing * distances[k] <= t})
    IN  IF j = n \/ InvSpacing * distances[j] = t
        THEN InvSpacing * waypoints[j][c]
        ELSE InvSpacing * waypoints[j][c]
             + ((t - InvSpacing * distances[j]) * (waypoints[j + 1][c] - waypoints[j][c]))
               \div (distances[j + 1] - distances[j])

\* _interpolate_lane(waypoints): resample along the 3-D arc length at 0.5
\* spacing, the total length appended.  `waypoints` is in metres; the result
\* is in half metres.  A polyline of total length 0 gives a single row.
_interpolate_lane(waypoints) ==
    LET n == Len(waypoints)
        distances == Array([i \in 1..n |-> Cum(waypoints, i, 3)])
        total == distances[n]
        \* np.arange(0, total, 0.5) then np.append(., total), in half metres
        new_distances == Array([k \in 1..(InvSpacing * total + 1) |-> k - 1])
        new_waypoints == Array([k \in 1..Len(new_distances) |->
                            Array([c \in 1..3 |-> Interp1d(distances, waypoints, c, new_distances[k])])])
        first == Array([c \in 1..3 |-> InvSpacing * waypoints[1][c]])
        last == Array([c \in 1..3 |-> InvSpacing * waypoints[n][c]])
        with_first == IF new_waypoints[1] # first
                      THEN <<first>> \o new_waypoints ELSE new_waypoints
    IN  IF with_first[Len(with_first)] # last
        THEN Append(with_first, last) ELSE with_first

\* ------------------------------------------------------------ construction
\* _get_speed_limit_mph: float(attributes["speed_limit"]) * kph2mph, or None.
\* The attribute is in km/h; the result is in thousandths of a mph.
_get_speed_limit_mph(lanelet) ==
    IF lanelet.speed_limit # None
    THEN Some((lanelet.speed_limit[1] * Kph2MphMicro) \div 1000)
    ELSE None

\* np.mean(centerlines[:, 0:2], axis=0) as an exact fraction: the sums over
\* the rows and the denominator (row count times the unit of the rows).
Mean2D(centerlines, unit) ==
    LET RECURSIVE Sum(_, _)
        Sum(c, k) == IF k = 0 THEN 0 ELSE Sum(c, k - 1) + centerlines[k][c]
    IN  [x |-> Sum(1, Len(centerlines)), y |-> Sum(2, Len(centerlines)),
         den |-> unit * Len(centerlines)]

\* The lanelet subtypes and line types named by constant.py, which is not
\* part of the tree: one name stands for each tuple.
T4_LANE == {"road"}
T4_ROADEDGE == {"road_border"}
T4_ROADLINE == {"line_thin"}

\* _get_boundary_segment: the polyline of a linestring resampled at 0.5.
_get_boundary_segment(linestring) ==
    [id |-> linestring.id, waypoints |-> _interpolate_lane(linestring.points)]

\* The LaneSegment convert_lanelet builds for one lanelet of the lanelet
\* layer (lines 366-395): polylines resampled at 0.5, no center yet.
LaneSegment(lanelet) ==
    [id |-> lanelet.id,
     waypoints |-> _interpolate_lane(lanelet.centerline),
     left_boundaries |-> _get_boundary_segment(lanelet.leftBound).waypoints,
     right_boundaries |-> _get_boundary_segment(lanelet.rightBound).waypoints,
     speed_limit_mph |-> _get_speed_limit_mph(lanelet),
     traffic_lights |-> lanelet.trafficLights,
     center |-> [x |-> 0, y |-> 0, den |-> 0]]

\* lanelet.polygon3d(): the left bound followed by the right bound reversed.
Polygon3d(lanelet) ==
    lanelet.leftBound.points
    \o Array([i \in 1..Len(lanelet.rightBound.points) |->
            lanelet.rightBound.points[Len(lanelet.rightBound.points) + 1 - i]])

\* The CrosswalkSegment of lines 396-403: the polygon resampled at 0.5.
CrosswalkSegment(lanelet) ==
    [id |-> lanelet.id, waypoints |-> _interpolate_lane(Polygon3d(lanelet))]

\* The elements of `seq` whose index is in `keep`, in order: the values of a
\* dict filled in a loop that skips the other elements.
RECURSIVE Select(_, _, _)
Select(seq, i, keep) ==
    IF i = 0 THEN <<>>
    ELSE IF i \in keep THEN Append(Select(seq, i - 1, keep), seq[i])
    ELSE Select(seq, i - 1, keep)

\* _fix_point_num for one segment: the three polylines resampled to 20
\* points, and the center set to the mean of the centerline as it was
\* before that resampling.  An exception of _interpolate_points leaves.
FixSegment(segment) ==
    LET c == _interpolate_points(segment.waypoints, NumPoint)
        l == _interpolate_points(segment.left_boundaries, NumPoint)
        r == _interpolate_points(segment.right_boundaries, NumPoint)
    IN  IF c.raised \/ l.raised \/ r.raised
        THEN [raised |-> TRUE, segment |-> segment]
        ELSE [raised |-> FALSE,
              segment |-> [segment EXCEPT
                              !.waypoints = c.new_line,
                              !.left_boundaries = l.new_line,
                              !.right_boundaries = r.new_line,
                              !.center = Mean2D(segment.waypoints, InvSpacing)]]

\* _fix_point_num: the loop runs over the lane segments of the map only;
\* crosswalk segments and boundary segments are returned as they came.
_fix_point_num(map) ==
    LET fixed == Array([i \in 1..Len(map.lane_segments) |-> FixSegment(map.lane_segments[i])])
    IN  IF \E i \in 1..Len(fixed) : fixed[i].raised
        THEN [raised |-> TRUE]
        ELSE [raised |-> FALSE,
              lane_segments |-> Array([i \in 1..Len(fixed) |-> fixed[i].segment]),
              crosswalk_segments |-> map.crosswalk_segments,
              boundary_segments |-> map.boundary_segments]

\* convert_lanelet: the Map built from a parsed map, or the exception that
\* ends the construction.  The segments are in the order of the layers (a
\* dict keeps insertion order).
convert_lanelet(lanelet_map) ==
    LET layer == lanelet_map.laneletLayer
        lines == lanelet_map.lineStringLayer
        lanes == {i \in 1..Len(layer) : layer[i].subtype \in T4_LANE}
        crosswalks == {i \in 1..Len(layer) : layer[i].subtype = "crosswalk"}
        taken_boundary_ids == UNION {{layer[i].leftBound.id, layer[i].rightBound.id} : i \in lanes}
        orphans == {i \in 1..Len(lines) :
                       /\ lines[i].type \in T4_ROADEDGE \cup T4_ROADLINE
                       /\ lines[i].id \notin taken_boundary_ids}
    IN  _fix_point_num(
            [lane_segments |->
                 Select(Array([i \in 1..Len(layer) |->
                            IF i \in lanes THEN LaneSegment(layer[i]) ELSE <<>>]),
                        Len(layer), lanes),
             crosswalk_segments |->
                 Select(Array([i \in 1..Len(layer) |->
                            IF i \in crosswalks THEN CrosswalkSegment(layer[i]) ELSE <<>>]),
                        Len(layer), crosswalks),
             boundary_segments |->
                 Select(Array([i \in 1..Len(lines) |->
                            IF i \in orphans THEN _get_boundary_segment(lines[i]) ELSE <<>>]),
                        Len(lines), orphans)])

\* ------------------------------------------------------------ process_segment
\* inv_transform_matrix_4x4 @ vstack((pts.T, ones)), rows 0..2, transposed.
\* The homogeneous 1 is Unit on the grid of the Map's polylines.
ToEgo(M, pts) ==
    Array([k \in 1..Len(pts) |->
        Array([r \in 1..3 |-> M[r][1] * pts[k][1] + M[r][2] * pts[k][2]
                        + M[r][3] * pts[k][3] + M[r][4] * Unit])])

\* A window test that leaves out the two lower bounds.
InsideUpperOnly(segment, center_x, center_y, mask_range) ==
    LET c == segment.center
        hi_x == c.den * (center_x * MarginDen + mask_range * MarginNum)
        hi_y == c.den * (center_y * MarginDen + mask_range * MarginNum)
    IN  /\ c.x * MarginDen < hi_x
        /\ c.y * MarginDen < hi_y

\* Lines 460-465: the centroid strictly inside the square of half side
\* mask_range * 1.1 around (center_x, center_y).  center is the fraction
\* x/den, y/den; both sides are multiplied by den * MarginDen.
Inside(segment, center_x, center_y, mask_range) ==
    LET c == segment.center
        lo_x == c.den * (center_x * MarginDen - mask_range * MarginNum)
        hi_x == c.den * (center_x * MarginDen + mask_range * MarginNum)
        lo_y == c.den * (center_y * MarginDen - mask_range * MarginNum)
        hi_y == c.den * (center_y * MarginDen + mask_range * MarginNum)
    IN  /\ c.x * MarginDen > lo_x
        /\ c.x * MarginDen < hi_x
        /\ c.y * MarginDen > lo_y
        /\ c.y * MarginDen < hi_y

\* An encoder that reads the last associated element instead of the first.
TrafficLightOfLast(segment, traffic_light_recognition) ==
    IF Len(segment.traffic_lights) = 0 THEN <<0, 0, 0, 1>>
    ELSE LET traffic_light_id == segment.traffic_lights[Len(segment.traffic_lights)]
         IN  IF traffic_light_id \in DOMAIN traffic_light_recognition
             THEN LET traffic_light_color == traffic_light_recognition[traffic_light_id]
                  IN  IF traffic_light_color = RED THEN <<0, 0, 1, 0>>
                      ELSE IF traffic_light_color = AMBER THEN <<0, 1, 0, 0>>
                      ELSE IF traffic_light_color = GREEN THEN <<1, 0, 0, 0>>
                      ELSE IF traffic_light_color = WHITE THEN <<0, 0, 0, 1>>
                      ELSE <<0, 0, 0, 0>>
             ELSE <<0, 0, 0, 1>>

\* An encoder without the branch for WHITE.
TrafficLightNoWhite(segment, traffic_light_recognition) ==
    IF Len(segment.traffic_lights) = 0 THEN <<0, 0, 0, 1>>
    ELSE LET traffic_light_id == segment.traffic_lights[1]
         IN  IF traffic_light_id \in DOMAIN traffic_light_recognition
             THEN LET traffic_light_color == traffic_light_recognition[traffic_light_id]
                  IN  IF traffic_light_color = RED THEN <<0, 0, 1, 0>>
                      ELSE IF traffic_light_color = AMBER THEN <<0, 1, 0, 0>>
                      ELSE IF traffic_light_color = GREEN THEN <<1, 0, 0, 0>>
                      ELSE <<0, 0, 0, 0>>
             ELSE <<0, 0, 0, 1>>

\* Lines 490-511: the (green, yellow, red, unknown) vector of a segment.
TrafficLight(segment, traffic_light_recognition) ==
    IF Len(segment.traffic_lights) = 0 THEN <<0, 0, 0, 1>>
    ELSE LET traffic_light_id == segment.traffic_lights[1]
         IN  IF traffic_light_id \in DOMAIN traffic_light_recognition
             THEN LET traffic_light_color == traffic_light_recognition[traffic_light_id]
                  IN  IF traffic_light_color = RED THEN <<0, 0, 1, 0>>
                      ELSE IF traffic_light_color = AMBER THEN <<0, 1, 0, 0>>
                      ELSE IF traffic_light_color = GREEN THEN <<1, 0, 0, 0>>
                      ELSE IF traffic_light_color = WHITE THEN <<0, 0, 0, 1>>
                      ELSE <<0, 0, 0, 0>>
             ELSE <<0, 0, 0, 1>>

\* Lines 494-497: the warning printed for a segment with several lights.
Warning(segment) ==
    IF Len(segment.traffic_lights) > 1 THEN <<segment.id>> ELSE <<>>

\* A local name left on the Map's array.
ReboundKept(map_array, ego_array) == map_array

\* The array a local name refers to after `name = name_ego[:3, :].T`
\* (lines 472, 477, 482): the array just computed, no longer the Map's.
Rebound(map_array, ego_array) == ego_array

\* A subtraction of the first row of `other` from every row of `target`.
ISubFirstRow(heap, target, other) ==
    [heap EXCEPT ![target] =
        Array([k \in 1..Len(heap[target]) |->
            Array([c \in 1..3 |-> heap[target][k][c] - heap[other][1][c]])])]

\* `target -= other` on the arrays of `heap` (lines 484-485): the array
\* that `target` names is overwritten in place.
ISub(heap, target, other) ==
    [heap EXCEPT ![target] =
        Array([k \in 1..Len(heap[target]) |->
            Array([c \in 1..3 |-> heap[target][k][c] - heap[other][k][c]])])]

\* First differences with the last difference repeated in the last row.
DiffCenterlinesRepeatLast(centerlines) ==
    Array([k \in 1..Len(centerlines) |->
        IF k < Len(centerlines)
        THEN Array([c \in 1..3 |-> centerlines[k + 1][c] - centerlines[k][c]])
        ELSE Array([c \in 1..3 |-> centerlines[k][c] - centerlines[k - 1][c]])])

\* Lines 487-488: first differences of the centerline, a zero row appended.
DiffCenterlines(centerlines) ==
    Array([k \in 1..Len(centerlines) |->
        IF k < Len(centerlines)
        THEN Array([c \in 1..3 |-> centerlines[k + 1][c] - centerlines[k][c]])
        ELSE <<0, 0, 0>>])

\* A conversion that leaves the value in miles per hour.
SpeedLimitMpsUnconverted(speed_limit_mph) ==
    IF speed_limit_mph = None
    THEN [raised |-> TRUE, value |-> 0]
    ELSE [raised |-> FALSE, value |-> speed_limit_mph[1]]

\* A conversion that takes a missing speed limit for zero.
SpeedLimitMpsOrZero(speed_limit_mph) ==
    IF speed_limit_mph = None
    THEN [raised |-> FALSE, value |-> 0]
    ELSE [raised |-> FALSE, value |-> (speed_limit_mph[1] * Mph2MpsE5) \div 100000]

\* Line 526: speed_limit_mph * 0.44704, thousandths of a mph to thousandths
\* of a m/s; None * float raises TypeError.
SpeedLimitMps(speed_limit_mph) ==
    IF speed_limit_mph = None
    THEN [raised |-> TRUE, value |-> 0]
    ELSE [raised |-> FALSE, value |-> (speed_limit_mph[1] * Mph2MpsE5) \div 100000]

\* Lines 469-528 of process_segment, for a segment that passed the window
\* test.  Arrays are objects: "map_c", "map_l", "map_r" are the segment's
\* own waypoint arrays, "ego_c", "ego_l", "ego_r" the arrays the call
\* allocates; the local names centerlines, left_boundaries and
\* right_boundaries hold one of these.  The result is the returned value
\* (kind "raise" or "ok") and the segment as the call leaves it.
ProcessInside(segment, M, traffic_light_recognition) ==
    LET heap0 == [map_c |-> segment.waypoints,
                  map_l |-> segment.left_boundaries,
                  map_r |-> segment.right_boundaries,
                  ego_c |-> ToEgo(M, segment.waypoints),
                  ego_l |-> ToEgo(M, segment.left_boundaries),
                  ego_r |-> ToEgo(M, segment.right_boundaries)]
        centerlines == Rebound("map_c", "ego_c")
        left_boundaries == Rebound("map_l", "ego_l")
        right_boundaries == Rebound("map_r", "ego_r")
        heap1 == ISub(heap0, left_boundaries, centerlines)
        heap2 == ISub(heap1, right_boundaries, centerlines)
        diff_centerlines == DiffCenterlines(heap2[centerlines])
        traffic_light == TrafficLight(segment, traffic_light_recognition)
        line_data == Array([k \in 1..Len(heap2[centerlines]) |->
                        <<heap2[centerlines][k][1], heap2[centerlines][k][2],
                          diff_centerlines[k][1], diff_centerlines[k][2],
                          heap2[left_boundaries][k][1], heap2[left_boundaries][k][2],
                          heap2[right_boundaries][k][1], heap2[right_boundaries][k][2]>>
                        \o traffic_light])
        after == [segment EXCEPT !.waypoints = heap2.map_c,
                                 !.left_boundaries = heap2.map_l,
                                 !.right_boundaries = heap2.map_r]
        speed_limit_mps == SpeedLimitMps(segment.speed_limit_mph)
    IN  IF speed_limit_mps.raised
        THEN [kind |-> "raise", segment |-> after, stdout |-> Warning(segment)]
        ELSE [kind |-> "ok", segment |-> after, stdout |-> Warning(segment),
              line_data |-> line_data,
              speed_limit_mps |-> speed_limit_mps.value]

\* A process_segment that tests the window last, after the traffic lights
\* and the speed limit were read.
process_segment_window_last(segment, M, center_x, center_y, mask_range, traffic_light_recognition) ==
    LET data == ProcessInside(segment, M, traffic_light_recognition)
    IN  IF data.kind = "raise" \/ Inside(segment, center_x, center_y, mask_range)
        THEN data
        ELSE [kind |-> "None", segment |-> data.segment, stdout |-> data.stdout]

\* process_segment: None for a segment whose center is not inside the
\* window (lines 460-467), before anything else of the segment is read.
process_segment(segment, M, center_x, center_y, mask_range, traffic_light_recognition) ==
    IF ~Inside(segment, center_x, center_y, mask_range)
    THEN [kind |-> "None", segment |-> segment, stdout |-> <<>>]
    ELSE ProcessInside(segment, M, traffic_light_recognition)

\* ------------------------------------------------------------ create_lane_tensor
\* The sort key of line 556, np.linalg.norm(tup[0][0, :2]), squared: the
\* square root is strictly increasing, so order and ties are those of the norm.
SortKey(tup) == tup.line_data[1][1] * tup.line_data[1][1]
                + tup.line_data[1][2] * tup.line_data[1][2]

\* An insertion that puts `tup` in front of the elements with an equal key.
InsertPosBeforeEqual(s, tup) ==
    Cardinality({k \in 1..Len(s) : SortKey(s[k]) < SortKey(tup)})

\* Where a stable sort puts `tup` in the sorted sequence `s`: behind every
\* element whose key is not greater.
InsertPos(s, tup) == Cardinality({k \in 1..Len(s) : SortKey(s[k]) <= SortKey(tup)})

\* sorted(result_list, key=...): Python's sort is stable.
RECURSIVE sorted(_)
sorted(result_list) ==
    IF Len(result_list) = 0 THEN <<>>
    ELSE LET n == Len(result_list)
             s == sorted(SubSeq(result_list, 1, n - 1))
             p == InsertPos(s, result_list[n])
         IN  SubSeq(s, 1, p) \o <<result_list[n]>> \o SubSeq(s, p + 1, Len(s))

\* A slice that stops one element early.
TruncateShort(result_list, num_segments) ==
    SubSeq(result_list, 1, IF Len(result_list) < num_segments - 1
                           THEN Len(result_list) ELSE num_segments - 1)

\* result_list[0:num_segments] for num_segments >= 0.
Truncate(result_list, num_segments) ==
    SubSeq(result_list, 1, IF Len(result_list) < num_segments
                           THEN Len(result_list) ELSE num_segments)

\* A row of torch.zeros((1, num_segments, 20, 12)).
ZeroRow == Array([k \in 1..NumPoint |-> Array([c \in 1..NumChannels |-> 0])])

\* Lines 541-553: the loop over lane_segments, up to segment i.  A raise in
\* process_segment ends the loop.
RECURSIVE Collect(_, _, _, _, _, _, _)
Collect(lane_segments, i, M, center_x, center_y, mask_range, traffic_light_recognition) ==
    IF i = 0
    THEN [raised |-> FALSE, result_list |-> <<>>, stdout |-> <<>>,
          lane_segments |-> lane_segments]
    ELSE LET prev == Collect(lane_segments, i - 1, M, center_x, center_y,
                             mask_range, traffic_light_recognition)
             curr_data == process_segment(lane_segments[i], M, center_x, center_y,
                                          mask_range, traffic_light_recognition)
         IN  IF prev.raised THEN prev
             ELSE [raised |-> curr_data.kind = "raise",
                   result_list |-> IF curr_data.kind = "ok"
                                   THEN Append(prev.result_list,
                                               [line_data |-> curr_data.line_data,
                                                speed_limit |-> curr_data.speed_limit_mps])
                                   ELSE prev.result_list,
                   stdout |-> prev.stdout \o curr_data.stdout,
                   lane_segments |-> [prev.lane_segments EXCEPT ![i] = curr_data.segment]]

\* create_lane_tensor: what the call returns or raises, what it printed,
\* and the lane segments as it leaves them.
create_lane_tensor(lane_segments, M, center_x, center_y, mask_range, traffic_light_recognition, num_segments) ==
    LET loop == Collect(lane_segments, Len(lane_segments), M, center_x, center_y,
                        mask_range, traffic_light_recognition)
        result_list == Truncate(sorted(loop.result_list), num_segments)
    IN  IF loop.raised
        THEN [status |-> "TypeError", stdout |-> loop.stdout,
              lane_segments |-> loop.lane_segments]
        ELSE IF Len(result_list) > num_segments
        \* lanes_tensor[0, i] with i >= num_segments
        THEN [status |-> "IndexError", stdout |-> loop.stdout,
              lane_segments |-> loop.lane_segments]
        ELSE [status |-> "returned", stdout |-> loop.stdout,
              lane_segments |-> loop.lane_segments,
              lanes_tensor |-> Array([i \in 1..num_segments |->
                                  IF i <= Len(result_list)
                                  THEN result_list[i].line_data ELSE ZeroRow]),
              lanes_speed_limit |-> Array([i \in 1..num_segments |->
                                  IF i <= Len(result_list)
                                  THEN result_list[i].speed_limit ELSE 0]),
              lanes_has_speed_limit |-> Array([i \in 1..num_segments |->
                                  i <= Len(result_list)])]

\* ------------------------------------------------------------ inputs
\* A 3-D point, in metres.
Pt(x, y, z) == <<x, y, z>>

\* A linestring of the line string layer.
Line3d(id, type, points) == [id |-> id, type |-> type, points |-> points]

\* A lanelet of the lanelet layer.
Lanelet(id, subtype, centerline, leftBound, rightBound, speed_limit, trafficLights) ==
    [id |-> id, subtype |-> subtype, centerline |-> centerline,
     leftBound |-> leftBound, rightBound |-> rightBound,
     speed_limit |-> speed_limit, trafficLights |-> trafficLights]

\* Lanelets 1..4 are lanes; 5 is a crosswalk, 6 a walkway, 7 a lane whose
\* centerline is one point twice, 8 a lane 9 m long whose right bound is
\* one point three times.
Lanelets ==
    <<Lanelet(1, "road", <<Pt(0, 0, 0), Pt(4, 0, 0)>>,
              Line3d(11, "line_thin", <<Pt(0, 1, 0), Pt(4, 1, 0)>>),
              Line3d(12, "line_thin", <<Pt(0, -1, 0), Pt(4, -1, 0)>>),
              Some(30), <<>>),
      Lanelet(2, "road", <<Pt(4, 0, 0), Pt(4, 3, 0), Pt(6, 3, 0)>>,
              Line3d(21, "line_thin", <<Pt(3, 0, 0), Pt(3, 4, 0), Pt(6, 4, 0)>>),
              Line3d(22, "road_border", <<Pt(5, 0, 0), Pt(5, 2, 0), Pt(6, 2, 0)>>),
              Some(60), <<1>>),
      Lanelet(3, "road", <<Pt(0, 4, 1), Pt(2, 4, 1)>>,
              Line3d(31, "line_thin", <<Pt(0, 5, 1), Pt(2, 5, 1)>>),
              Line3d(32, "line_thin", <<Pt(0, 3, 1), Pt(2, 3, 1)>>),
              Some(30), <<2, 1>>),
      Lanelet(4, "road", <<Pt(0, -4, 0), Pt(0, -8, 0)>>,
              Line3d(41, "road_border", <<Pt(1, -4, 0), Pt(1, -8, 0)>>),
              Line3d(42, "line_thin", <<Pt(-1, -4, 0), Pt(-1, -8, 0)>>),
              None, <<2>>),
      Lanelet(5, "crosswalk", <<Pt(11, 0, 0), Pt(11, 2, 0)>>,
              Line3d(51, "pedestrian_marking", <<Pt(10, 0, 0), Pt(10, 2, 0)>>),
              Line3d(52, "line_thin", <<Pt(12, 0, 0), Pt(12, 2, 0)>>),
              None, <<>>),
      Lanelet(6, "walkway", <<Pt(11, 4, 0), Pt(11, 6, 0)>>,
              Line3d(61, "stop_line", <<Pt(10, 4, 0), Pt(10, 6, 0)>>),
              Line3d(62, "road_border", <<Pt(12, 4, 0), Pt(12, 6, 0)>>),
              None, <<>>),
      Lanelet(7, "road", <<Pt(8, 8, 0), Pt(8, 8, 0)>>,
              Line3d(71, "line_thin", <<Pt(8, 9, 0), Pt(9, 9, 0)>>),
              Line3d(72, "line_thin", <<Pt(8, 7, 0), Pt(9, 7, 0)>>),
              Some(30), <<>>),
      Lanelet(8, "road", <<Pt(0, 10, 0), Pt(9, 10, 0)>>,
              Line3d(81, "line_thin", <<Pt(0, 11, 0), Pt(9, 11, 0)>>),
              Line3d(82, "line_thin", <<Pt(0, 9, 0), Pt(0, 9, 0), Pt(0, 9, 0)>>),
              Some(30), <<>>)>>

\* Lanelets of the maps the planning cycles run on: the four lanes.
NumLanes == 4

\* The lanelet layers of the maps: up to MaxLanelets distinct lanelets in
\* any order.
LaneletLayers ==
    {Array([i \in 1..Len(ix) |-> Lanelets[ix[i]]]) :
        ix \in {s \in UNION {[1..n -> 1..NumLanes] : n \in 0..MaxLanelets} :
                    \A a, b \in 1..Len(s) : a # b => s[a] # s[b]}}

\* The bounds of the lanelets of a layer, as the line string layer holds
\* them.
RECURSIVE BoundsOf(_, _)
BoundsOf(layer, i) ==
    IF i = 0 THEN <<>>
    ELSE BoundsOf(layer, i - 1) \o <<layer[i].leftBound, layer[i].rightBound>>

\* Parsed maps whose lanelets are all lanes with non-degenerate polylines.
LaneMaps ==
    {[laneletLayer |-> layer, lineStringLayer |-> BoundsOf(layer, Len(layer))] :
        layer \in LaneletLayers}

\* Linestrings that belong to no lanelet.
LooseLines ==
    <<Line3d(91, "road_border", <<Pt(0, 6, 0), Pt(3, 6, 0)>>),
      Line3d(92, "line_thin", <<Pt(5, 6, 0), Pt(5, 6, 0)>>),
      Line3d(93, "virtual", <<Pt(0, 7, 0), Pt(2, 7, 0)>>)>>

\* Parsed maps of any content: up to MaxLanelets lanelets in the order of
\* their ids, their bounds and some loose linestrings.
ParsedMaps ==
    {[laneletLayer |-> Select(Lanelets, Len(Lanelets), ids),
      lineStringLayer |-> BoundsOf(Select(Lanelets, Len(Lanelets), ids), Cardinality(ids))
                          \o Select(LooseLines, Len(LooseLines), loose)] :
        ids \in {S \in SUBSET (1..Len(Lanelets)) : Cardinality(S) <= MaxLanelets},
        loose \in {{}, {1}, {2, 3}, {1, 2, 3}}}

\* Ego poses: position and yaw in quarter turns.
EgoPoses ==
    {[x |-> 0, y |-> 0, q |-> 0], [x |-> 4, y |-> 0, q |-> 1],
     [x |-> 13, y |-> 0, q |-> 2]}

\* The map-to-ego matrix of a pose: the inverse of the pose.
Map2Bl(pose) ==
    LET cs == IF pose.q = 0 THEN 1 ELSE IF pose.q = 2 THEN -1 ELSE 0
        sn == IF pose.q = 1 THEN 1 ELSE IF pose.q = 3 THEN -1 ELSE 0
    IN  <<<<cs, sn, 0, -(cs * pose.x + sn * pose.y)>>,
          <<-sn, cs, 0, -(cs * pose.y - sn * pose.x)>>,
          <<0, 0, 1, 0>>,
          <<0, 0, 0, 1>>>>

MaskRanges == {10, 40}

\* Observed states: regulatory element id -> colour code.  Codes 0 and
\* WHITE + 1 are outside the four the converter names.
Recognitions ==
    {<<>>, (2 :> RED), (1 :> AMBER) @@ (2 :> GREEN)}
    \cup {(1 :> c) : c \in {0, RED, GREEN, WHITE, WHITE + 1}}

\* Polylines handed to _interpolate_points on its own: from the origin,
\* up to MaxSteps pieces.
Steps == {Pt(2, 0, 0), Pt(0, 3, 0), Pt(0, 0, 1), Pt(-1, 0, 0), Pt(3, 0, 3)}

RECURSIVE Walk(_, _)
Walk(steps, i) ==
    IF i = 0 THEN Pt(0, 0, 0)
    ELSE Array([c \in 1..3 |-> Walk(steps, i - 1)[c] + steps[i][c]])

Lines ==
    {Array([i \in 1..(Len(st) + 1) |-> Walk(st, i - 1)]) :
        st \in UNION {[1..n -> Steps] : n \in 1..MaxSteps}}

\* Polylines handed to the two resampling passes of the construction: from
\* a start point, up to MaxSteps axis-parallel pieces; a piece may be of
\* length zero, so that a point repeats.
LaneSteps == {Pt(0, 0, 0), Pt(2, 0, 0), Pt(0, 3, 0), Pt(0, 0, 1), Pt(-1, 0, 0)}

LaneStarts == {Pt(0, 0, 0), Pt(1, -2, 3)}

LaneLines ==
    {Array([i \in 1..(Len(st) + 1) |->
         Array([c \in 1..3 |-> start[c] + Walk(st, i - 1)[c]])]) :
        st \in UNION {[1..n -> LaneSteps] : n \in 1..MaxSteps}, start \in LaneStarts}

\* ------------------------------------------------------------ state
VARIABLES
    osm,            \* the parsed map, as _load_osm(filename) returns it
    static_map,     \* what convert_lanelet returned or raised
    lane_segments,  \* the Map's lane segments
    built,          \* the lane segments as convert_lanelet returned them
    pc,             \* "idle", "called", "done"
    args,           \* the arguments of the cycle in progress
    out,            \* what create_lane_tensor returned or raised
    line,           \* argument of _interpolate_points
    num_point,      \* argument of _interpolate_points
    new_line        \* result of _interpolate_points

vars == <<osm, static_map, lane_segments, built, pc, args, out, line, num_point, new_line>>

NoArgs == [none |-> TRUE]
NoMap == [none |-> TRUE]
NoOut == [status |-> "none"]

Init ==
    /\ osm \in LaneMaps
    /\ static_map = convert_lanelet(osm)
    /\ ~static_map.raised
    /\ lane_segments = static_map.lane_segments
    /\ built = lane_segments
    /\ pc = "idle"
    /\ args = NoArgs
    /\ out = NoOut
    /\ line = <<>>
    /\ num_point = 0
    /\ new_line = <<>>

\* A planning cycle starts: the caller supplies the pose, the mask range,
\* the observed traffic lights and the number of rows.
Call ==
    /\ pc = "idle"
    /\ \E pose \in EgoPoses, mask_range \in MaskRanges,
          traffic_light_recognition \in Recognitions, num_segments \in 0..MaxN :
          args' = [map2bl_mat4x4 |-> Map2Bl(pose),
                   center_x |-> pose.x, center_y |-> pose.y,
                   mask_range |-> mask_range,
                   traffic_light_recognition |-> traffic_light_recognition,
                   num_segments |-> num_segments]
    /\ pc' = "called"
    /\ UNCHANGED <<osm, static_map, lane_segments, built, out, line, num_point, new_line>>

\* The call of create_lane_tensor on the Map's lane segments.
Result(segments, a) ==
    create_lane_tensor(segments, a.map2bl_mat4x4, a.center_x, a.center_y,
                       a.mask_range, a.traffic_light_recognition, a.num_segments)

CreateLaneTensor ==
    /\ pc = "called"
    /\ \E r \in {Result(lane_segments, args)} :
          /\ lane_segments' = r.lane_segments
          /\ out' = [f \in DOMAIN r \ {"lane_segments"} |-> r[f]]
    /\ pc' = "done"
    /\ UNCHANGED <<osm, static_map, built, args, line, num_point, new_line>>

\* The caller takes the tensors (or the exception); the cycle is over.
Consume ==
    /\ pc = "done"
    /\ pc' = "idle"
    /\ args' = NoArgs
    /\ out' = NoOut
    /\ UNCHANGED <<osm, static_map, lane_segments, built, line, num_point, new_line>>

Next == Call \/ CreateLaneTensor \/ Consume

Spec == Init /\ [][Next]_vars

\* _interpolate_points on its own.
InitInterp ==
    /\ osm = NoMap
    /\ static_map = NoMap
    /\ lane_segments = <<>>
    /\ built = <<>>
    /\ pc = "interp_called"
    /\ args = NoArgs
    /\ out = NoOut
    /\ line \in Lines
    /\ num_point \in 1..MaxK
    /\ new_line = <<>>

Resample ==
    /\ pc = "interp_called"
    /\ \E r \in {_interpolate_points(line, num_point)} :
          /\ new_line' = r.new_line
          /\ out' = [status |-> IF r.raised THEN "GEOSException" ELSE "returned"]
    /\ pc' = "interp_done"
    /\ UNCHANGED <<osm, static_map, lane_segments, built, args, line, num_point>>

NextInterp == Resample

SpecInterp == InitInterp /\ [][NextInterp]_vars

\* The two resampling passes convert_lanelet applies to a polyline of a
\* lane: _interpolate_lane at 0.5 spacing, then _interpolate_points to 20.
InitLane ==
    /\ osm = NoMap
    /\ static_map = NoMap
    /\ lane_segments = <<>>
    /\ built = <<>>
    /\ pc = "lane_called"
    /\ args = NoArgs
    /\ out = NoOut
    /\ line \in LaneLines
    /\ num_point = NumPoint
    /\ new_line = <<>>

ResampleLane ==
    /\ pc = "lane_called"
    /\ \E r \in {_interpolate_points(_interpolate_lane(line), num_point)} :
          /\ new_line' = r.new_line
          /\ out' = [status |-> IF r.raised THEN "GEOSException" ELSE "returned"]
    /\ pc' = "lane_done"
    /\ UNCHANGED <<osm, static_map, lane_segments, built, args, line, num_point>>

NextLane == ResampleLane

SpecLane == InitLane /\ [][NextLane]_vars

\* The construction of the Map from a parsed map.
InitMap ==
    /\ osm \in ParsedMaps
    /\ static_map = NoMap
    /\ lane_segments = <<>>
    /\ built = <<>>
    /\ pc = "loaded"
    /\ args = NoArgs
    /\ out = NoOut
    /\ line = <<>>
    /\ num_point = 0
    /\ new_line = <<>>

ConvertLanelet ==
    /\ pc = "loaded"
    /\ \E map \in {convert_lanelet(osm)} :
          /\ static_map' = map
          /\ lane_segments' = IF map.raised THEN <<>> ELSE map.lane_segments
          /\ built' = lane_segments'
    /\ pc' = "converted"
    /\ UNCHANGED <<osm, args, out, line, num_point, new_line>>

NextMap == ConvertLanelet

SpecMap == InitMap /\ [][NextMap]_vars

\* ------------------------------------------------------------ properties
Done == pc = "done"
Returned == pc = "done" /\ out.status = "returned"

\* Indices of the lane segments that pass the window test of this cycle.
SurvivorIdx ==
    {j \in 1..Len(lane_segments) :
        Inside(lane_segments[j], args.center_x, args.center_y, args.mask_range)}

Min2(a, b) == IF a < b THEN a ELSE b

\* Number of rows a completed cycle fills.
NumFilled == Min2(args.num_segments, Cardinality(SurvivorIdx))

\* The centerline of segment j in the ego frame of this cycle.
EgoCenterline(j) == ToEgo(args.map2bl_mat4x4, lane_segments[j].waypoints)

\* Row i of the lane tensor carries the centerline of segment j.
RowIsOf(i, j) ==
    LET ego == EgoCenterline(j)
    IN  \A k \in 1..NumPoint :
            /\ out.lanes_tensor[i][k][1] = ego[k][1]
            /\ out.lanes_tensor[i][k][2] = ego[k][2]

\* Squared distance from the ego origin to the first centerline point of j.
DistSq(j) ==
    LET first == ToEgo(args.map2bl_mat4x4, <<lane_segments[j].waypoints[1]>>)[1]
    IN  first[1] * first[1] + first[2] * first[2]

\* Position of survivor j when the survivors are ordered by distance, equal
\* distances by position in the input list.
Rank(j) ==
    1 + Cardinality({i \in SurvivorIdx :
                        DistSq(i) < DistSq(j) \/ (DistSq(i) = DistSq(j) /\ i < j)})

RowAllZero(i) ==
    /\ Len(out.lanes_tensor[i]) = NumPoint
    /\ \A k \in 1..NumPoint :
          /\ Len(out.lanes_tensor[i][k]) = NumChannels
          /\ \A c \in 1..NumChannels : out.lanes_tensor[i][k][c] = 0

\* C1: a cycle that returns gives three tensors of exactly num_segments
\* rows; rows 1..min(N, S) are filled with surviving segments and flagged,
\* every other row is zero in all channels at all points, with speed limit 0
\* and has_speed_limit false (S = number of segments passing the filter).
C1_RowsAndPadding ==
    Returned =>
        /\ Len(out.lanes_tensor) = args.num_segments
        /\ Len(out.lanes_speed_limit) = args.num_segments
        /\ Len(out.lanes_has_speed_limit) = args.num_segments
        /\ \A i \in 1..args.num_segments :
              IF i <= NumFilled
              THEN /\ out.lanes_has_speed_limit[i] = TRUE
                   /\ \E j \in SurvivorIdx : RowIsOf(i, j)
              ELSE /\ RowAllZero(i)
                   /\ out.lanes_speed_limit[i] = 0
                   /\ out.lanes_has_speed_limit[i] = FALSE

\* A returned cycle with both a filled row and a padding row.
C1_Witness ==
    /\ Returned
    /\ 0 < Cardinality(SurvivorIdx)
    /\ Cardinality(SurvivorIdx) < args.num_segments

\* A returned cycle with no survivor and at least one row.
C1_WitnessEmpty ==
    Returned /\ SurvivorIdx = {} /\ args.num_segments > 0

\* C2: the filled rows are the nearest survivors by distance from the ego
\* origin to the first centerline point, in non-decreasing order of that
\* distance, equal distances in input order: survivor j is in row Rank(j)
\* whenever Rank(j) <= num_segments.
C2_NearestStableOrder ==
    Returned =>
        \A j \in SurvivorIdx :
            Rank(j) <= args.num_segments => RowIsOf(Rank(j), j)

\* A returned cycle where two survivors are equally far, the earlier one
\* kept and the later one cut off by num_segments.
C2_Witness ==
    /\ Returned
    /\ \E i, j \in SurvivorIdx :
          /\ i < j
          /\ DistSq(i) = DistSq(j)
          /\ Rank(i) = args.num_segments
          /\ Rank(j) > args.num_segments

\* The centroid of segment j within mask_range * 1.1 of the ego position in
\* x and in y.
WithinWindow(j) ==
    LET c == lane_segments[j].center
    IN  /\ Abs(c.x * MarginDen - c.den * args.center_x * MarginDen)
               <= c.den * args.mask_range * MarginNum
        /\ Abs(c.y * MarginDen - c.den * args.center_y * MarginDen)
               <= c.den * args.mask_range * MarginNum

SegmentOfRow(i) == CHOOSE j \in SurvivorIdx : Rank(j) = i

\* Channels 8..11 of point k of row i: (green, yellow, red, unknown).
LightOf(i, k) == SubSeq(out.lanes_tensor[i][k], 9, 12)

\* The vector with a single 1 in the given slot (0..3).
OneHot(slot) == [c \in 1..4 |-> IF c = slot + 1 THEN 1 ELSE 0]

NamedCodes == {RED, AMBER, GREEN, WHITE}

SlotOf(code) ==
    IF code = GREEN THEN 0 ELSE IF code = AMBER THEN 1 ELSE IF code = RED THEN 2 ELSE 3

\* C4: the traffic-light vector of a segment depends only on its first
\* associated element and the observed states: unknown without an element or
\* when the first element's id is not observed, otherwise the slot of the
\* first element's code (red 2, amber 1, green 0, white 3); further
\* elements change nothing and do not make the cycle fail.
C4_FirstElementDecides ==
    /\ Returned =>
          \A i \in 1..NumFilled :
              LET tls == lane_segments[SegmentOfRow(i)].traffic_lights
                  rec == args.traffic_light_recognition
              IN  \A k \in 1..NumPoint :
                      /\ (tls = <<>> \/ tls[1] \notin DOMAIN rec)
                            => LightOf(i, k) = OneHot(3)
                      /\ (tls # <<>> /\ tls[1] \in DOMAIN rec /\ rec[tls[1]] \in NamedCodes)
                            => LightOf(i, k) = OneHot(SlotOf(rec[tls[1]]))
    /\ (Done /\ \A j \in SurvivorIdx : lane_segments[j].speed_limit_mph # None)
          => out.status = "returned"

\* A returned cycle with a row of a segment that has two associated
\* elements, both observed, in different states.
C4_Witness ==
    /\ Returned
    /\ \E i \in 1..NumFilled :
          LET tls == lane_segments[SegmentOfRow(i)].traffic_lights
              rec == args.traffic_light_recognition
          IN  /\ Len(tls) > 1
              /\ tls[1] \in DOMAIN rec
              /\ tls[2] \in DOMAIN rec
              /\ rec[tls[1]] \in NamedCodes
              /\ rec[tls[2]] \in NamedCodes
              /\ rec[tls[1]] # rec[tls[2]]

ValidRecognition ==
    \A id \in DOMAIN args.traffic_light_recognition :
        args.traffic_light_recognition[id] \in NamedCodes

\* C5: with every observed code one of red, amber, green, white, channels
\* 8..11 of each of the 20 points of a surviving segment hold exactly one 1
\* and three 0, the same vector at all points.
C5_OneHotEverywhere ==
    (Returned /\ ValidRecognition) =>
        \A i \in 1..NumFilled : \A k \in 1..NumPoint :
            /\ \E slot \in 0..3 : LightOf(i, k) = OneHot(slot)
            /\ LightOf(i, k) = LightOf(i, 1)

\* A returned cycle, all codes named, with a row of a segment whose first
\* element is observed white.
C5_Witness ==
    /\ Returned
    /\ ValidRecognition
    /\ \E i \in 1..NumFilled :
          LET tls == lane_segments[SegmentOfRow(i)].traffic_lights
              rec == args.traffic_light_recognition
          IN  tls # <<>> /\ tls[1] \in DOMAIN rec /\ rec[tls[1]] = WHITE

\* C6: when the first associated element of a surviving segment is observed
\* with a code other than red, amber, green or white, the cycle ends in an
\* error and returns no output.
C6_UnnamedCodeIsError ==
    (Done /\ \E j \in SurvivorIdx :
                LET tls == lane_segments[j].traffic_lights
                    rec == args.traffic_light_recognition
                IN  tls # <<>> /\ tls[1] \in DOMAIN rec /\ rec[tls[1]] \notin NamedCodes)
        => out.status # "returned"

\* C7: if a segment passes the filter while its speed limit is None, the
\* cycle aborts and returns no tensors.
C7_MissingSpeedLimitAborts ==
    (Done /\ \E j \in SurvivorIdx : lane_segments[j].speed_limit_mph = None)
        => /\ out.status = "TypeError"
           /\ "lanes_tensor" \notin DOMAIN out
           /\ "lanes_speed_limit" \notin DOMAIN out
           /\ "lanes_has_speed_limit" \notin DOMAIN out

\* A finished cycle in which a segment without speed limit passed the
\* filter behind a segment with one.
C7_Witness ==
    /\ Done
    /\ out.status = "TypeError"
    /\ \E i, j \in SurvivorIdx :
          /\ i < j
          /\ lane_segments[i].speed_limit_mph # None
          /\ lane_segments[j].speed_limit_mph = None

\* C8: the Map's lane segments (waypoints, boundaries, centroid, speed
\* limit, traffic lights) stay as convert_lanelet returned them through any
\* sequence of cycles, aborted ones included, and what a cycle returns is
\* what the same call returns on the Map as built.
C8_MapNeverMutated ==
    /\ lane_segments = built
    /\ Done => \A f \in DOMAIN out : out[f] = Result(built, args)[f]

\* A cycle that aborted after the offsets of an earlier segment were
\* subtracted.
C8_Witness ==
    /\ Done
    /\ out.status = "TypeError"
    /\ \E i, j \in SurvivorIdx : i < j /\ lane_segments[j].speed_limit_mph = None

\* Point k of row i has its four leading channels all zero.
Masked(i, k) == \A c \in 1..4 : out.lanes_tensor[i][k][c] = 0

\* C9: every row is masked at all 20 points or at none, and a filled row
\* has no masked point.
C9_NoPartialMask ==
    Returned =>
        \A i \in 1..args.num_segments :
            /\ (\A k \in 1..NumPoint : Masked(i, k)) \/ (\A k \in 1..NumPoint : ~Masked(i, k))
            /\ i <= NumFilled => \A k \in 1..NumPoint : ~Masked(i, k)

\* C10: for a sequence of at least 2 points with non-zero path length and
\* K >= 2, _interpolate_points returns exactly K points, the first equal to
\* the first input point and the last equal to the last input point
\* (coordinates of the result are in 1/(K-1) of the input unit).
C10_CountAndEndpoints ==
    (/\ pc = "interp_done"
     /\ num_point >= 2
     /\ Len(line) >= 2
     /\ \E i \in 1..(Len(line) - 1) : line[i] # line[i + 1])
        => /\ Len(new_line) = num_point
           /\ \A c \in 1..3 :
                 /\ new_line[1][c] = (num_point - 1) * line[1][c]
                 /\ new_line[num_point][c] = (num_point - 1) * line[Len(line)][c]

\* The polyline is one point repeated.
ZeroLength(waypoints) == \A i \in 1..Len(waypoints) : waypoints[i] = waypoints[1]

\* C11: resampling a zero-length polyline (one point repeated two or more
\* times) through _interpolate_lane and then _interpolate_points to 20
\* raises no error and gives exactly 20 copies of that point (coordinates
\* of the result are in 1/Unit metres).
C11_ZeroLengthReplicated ==
    (pc = "lane_done" /\ Len(line) >= 2 /\ ZeroLength(line))
        => /\ out.status = "returned"
           /\ Len(new_line) = NumPoint
           /\ \A k \in 1..Len(new_line) : \A c \in 1..3 :
                 new_line[k][c] = Unit * line[1][c]

\* The construction has ended and returned a Map.
Converted == pc = "converted" /\ ~static_map.raised

\* C12: in the Map convert_lanelet returns, every polyline has exactly 20
\* points: each lane centerline, each lane's left and right boundary, each
\* crosswalk polygon and each orphan boundary segment.
C12_EveryPolylineHasNumPoint ==
    Converted =>
        /\ \A i \in 1..Len(static_map.lane_segments) :
              /\ Len(static_map.lane_segments[i].waypoints) = NumPoint
              /\ Len(static_map.lane_segments[i].left_boundaries) = NumPoint
              /\ Len(static_map.lane_segments[i].right_boundaries) = NumPoint
        /\ \A i \in 1..Len(static_map.crosswalk_segments) :
              Len(static_map.crosswalk_segments[i].waypoints) = NumPoint
        /\ \A i \in 1..Len(static_map.boundary_segments) :
              Len(static_map.boundary_segments[i].waypoints) = NumPoint

\* C13: for every surviving segment and every point, the left offset
\* (channels 4..5) plus the centerline point (channels 0..1) is the xy of
\* the ego-frame transform of the Map's left boundary point of the same
\* index, and channels 6..7 plus channels 0..1 is that of the right
\* boundary point.
C13_OffsetsAgainstSameIndex ==
    Returned =>
        \A i \in 1..NumFilled :
            LET j == SegmentOfRow(i)
                left == ToEgo(args.map2bl_mat4x4, lane_segments[j].left_boundaries)
                right == ToEgo(args.map2bl_mat4x4, lane_segments[j].right_boundaries)
                row == out.lanes_tensor[i]
            IN  \A k \in 1..NumPoint :
                    /\ row[k][5] + row[k][1] = left[k][1]
                    /\ row[k][6] + row[k][2] = left[k][2]
                    /\ row[k][7] + row[k][1] = right[k][1]
                    /\ row[k][8] + row[k][2] = right[k][2]

\* A returned cycle with a filled row whose left offset is not the same at
\* all points.
C13_Witness ==
    /\ Returned
    /\ \E i \in 1..NumFilled : \E k \in 1..NumPoint :
          <<out.lanes_tensor[i][k][5], out.lanes_tensor[i][k][6]>>
              # <<out.lanes_tensor[i][1][5], out.lanes_tensor[i][1][6]>>

\* C14: for every surviving segment, channels 2..3 at a point before the
\* last are the next ego-frame centerline point minus this one, and at the
\* last point they are zero.
C14_HeadingDelta ==
    Returned =>
        \A i \in 1..NumFilled :
            LET ego == EgoCenterline(SegmentOfRow(i))
                row == out.lanes_tensor[i]
            IN  \A k \in 1..NumPoint :
                    IF k < NumPoint
                    THEN /\ row[k][3] = ego[k + 1][1] - ego[k][1]
                         /\ row[k][4] = ego[k + 1][2] - ego[k][2]
                    ELSE /\ row[k][3] = 0
                         /\ row[k][4] = 0

\* A returned cycle with a filled row of a lane that turns: the delta
\* before the last point is not zero and differs from the first delta.
C14_Witness ==
    /\ Returned
    /\ \E i \in 1..NumFilled :
          LET row == out.lanes_tensor[i]
          IN  /\ <<row[NumPoint - 1][3], row[NumPoint - 1][4]>> # <<0, 0>>
              /\ <<row[NumPoint - 1][3], row[NumPoint - 1][4]>> # <<row[1][3], row[1][4]>>

\* C15: in a cycle that returns, has_speed_limit of row i is true exactly
\* when row i is filled with a surviving segment; every filled row belongs
\* to a segment that has a speed limit and carries it in m/s (miles per
\* hour times 0.44704, in thousandths, rounded down).
C15_FlagIsRowValidity ==
    Returned =>
        \A i \in 1..args.num_segments :
            /\ out.lanes_has_speed_limit[i] <=> (i <= NumFilled)
            /\ i <= NumFilled =>
                  LET mph == lane_segments[SegmentOfRow(i)].speed_limit_mph
                      mps == out.lanes_speed_limit[i]
                  IN  /\ mph # None
                      /\ 100000 * mps <= mph[1] * Mph2MpsE5
                      /\ mph[1] * Mph2MpsE5 < 100000 * (mps + 1)

\* A returned cycle with a filled row and a padding row on a Map that has
\* a lane without speed limit.
C15_Witness ==
    /\ Returned
    /\ 0 < NumFilled
    /\ NumFilled < args.num_segments
    /\ \E j \in 1..Len(lane_segments) : lane_segments[j].speed_limit_mph = None

\* The list without its element j.
Without(seq, j) == SubSeq(seq, 1, j - 1) \o SubSeq(seq, j + 1, Len(seq))

\* Segment j has no speed limit, or a traffic light that is not observed,
\* or more than one traffic light.
Irregular(j) ==
    LET tls == lane_segments[j].traffic_lights
    IN  \/ lane_segments[j].speed_limit_mph = None
        \/ Len(tls) > 1
        \/ \E n \in 1..Len(tls) : tls[n] \notin DOMAIN args.traffic_light_recognition

\* C16: a segment without speed limit, or with an unobserved or multiple
\* traffic light, whose centroid is outside the window has no effect on the
\* cycle: what the cycle returns, raises and prints is what it returns,
\* raises and prints for the list without that segment.
C16_OutsideSegmentHasNoEffect ==
    Done =>
        \A j \in 1..Len(lane_segments) :
            (~WithinWindow(j) /\ Irregular(j)) =>
                LET r == Result(Without(lane_segments, j), args)
                IN  \A f \in DOMAIN out : out[f] = r[f]

\* A returned cycle with a filled row while a segment without speed limit
\* and a segment with two traffic lights are outside the window.
C16_Witness ==
    /\ Returned
    /\ 0 < NumFilled
    /\ \E j, k \in 1..Len(lane_segments) :
          /\ ~WithinWindow(j) /\ lane_segments[j].speed_limit_mph = None
          /\ ~WithinWindow(k) /\ Len(lane_segments[k].traffic_lights) > 1

====
